---- MODULE Spec2Model ----
(***************************************************************************)
(* A model of the Si5351 clock-generator driver (src/src/si5351.c,         *)
(* src/include/si5351.h, src/samples/esp32/main/main.c).                   *)
(*                                                                         *)
(* Two state machines share the module:                                    *)
(*   Spec      - the driver: si5351_init, si5351_set, si5351_set_disabled, *)
(*               si5351_start_batch, si5351_write_batch, each a whole      *)
(*               handler including the configuration pass it runs;         *)
(*   FareySpec - farey_fraction run statement by statement on inputs drawn *)
(*               from bounded sets.                                        *)
(*                                                                         *)
(* Arithmetic.  uint32_t values of the driver stay below 2^31 in every     *)
(* run of the model, so they are plain naturals; the one value that can    *)
(* leave the uint32_t range, pll[0] of si5351_calc_multisynth, is kept as  *)
(* its exact integer and its register bytes are taken with floor div/mod,  *)
(* which are the bytes of the value wrapped modulo 2^32.  The float        *)
(* argument of farey_fraction is an exact rational <<p, q>>; the float     *)
(* rounding of the C build is not modelled.                                *)
(***************************************************************************)
EXTENDS Integers, Sequences, FiniteSets, TLC

\* ------------------------------------------------------------------------
\* Constants of si5351.h
\* ------------------------------------------------------------------------
SI5351_CLOCKS == 8
SI5351_PLLS == 2
SI5351_MIN_FREQ == 8000
SI5351_MAX_FREQ == 150000000
SI5351_VCO_MIN == 600000000
SI5351_VCO_MAX == 900000000
SI5351_CLOCK_ALL == -1

SI5351_REG_OE == 3
SI5351_REG_CLK0_CONTROL == 16
SI5351_REG_CLK3_0_DISABLE_STATE == 24
SI5351_REG_CLK7_4_DISABLE_STATE == 25
SI5351_REG_MSN_PLL_BASE == 26
SI5351_REG_CLK_SYNTH_BASE == 42
SI5351_REG_PHASE_BASE == 165
SI5351_REG_CRYSTAL_INTERNAL_LOAD_CAPACITANCE == 183

SI5351_PLL_A == 0
SI5351_PLL_B == 1

SI5351_CRYSTAL_LOAD_6PF == 64
SI5351_CRYSTAL_LOAD_8PF == 128
SI5351_CRYSTAL_LOAD_10PF == 192

SI5351_CRYSTAL_FREQ_25MHZ == 25000000
SI5351_CRYSTAL_FREQ_27MHZ == 27000000

\* the max_denominator si5351_calc_multisynth hands to farey_fraction
FAREY_MAX_DENOMINATOR == 1048575
\* the pre-R floor of AN619 used by both pre-scale loops
PRESCALE_FLOOR == 500000
\* the numerator 600000000.0 of the OMD computation
OMD_NUMERATOR == 600000000
\* the OMD range tested at si5351.c:117
OMD_MIN == 8
OMD_MAX == 2047
\* the cap of the per-output doubling loop at si5351.c:163
RDIV_CAP == 128

\* ------------------------------------------------------------------------
\* Bit arithmetic on naturals
\* ------------------------------------------------------------------------
Min(x, y) == IF x < y THEN x ELSE y

Abs(x) == IF x < 0 THEN -x ELSE x

RECURSIVE BitOr(_, _)
\* x | y
BitOr(x, y) ==
    IF x = 0 THEN y
    ELSE IF y = 0 THEN x
    ELSE (IF (x % 2 = 1) \/ (y % 2 = 1) THEN 1 ELSE 0)
         + 2 * BitOr(x \div 2, y \div 2)

RECURSIVE BitAnd(_, _)
\* x & y
BitAnd(x, y) ==
    IF x = 0 \/ y = 0 THEN 0
    ELSE (IF (x % 2 = 1) /\ (y % 2 = 1) THEN 1 ELSE 0)
         + 2 * BitAnd(x \div 2, y \div 2)

\* the uint8_t conversion of the val argument of the write callback
U8(x) == x % 256

\* one call of si5351->write(dev, reg, val)
W(reg, val) == <<reg, U8(val)>>

\* ------------------------------------------------------------------------
\* farey_fraction, si5351.c:19-51
\* ------------------------------------------------------------------------

\* the guard of si5351.c:21 on f = p/q
FareyDegenerate(p, q, D) == p <= 0 \/ p >= q \/ D <= 1

\* si5351.c:35, f < mediant_num/mediant_den, on f = p/q
FLessThan(p, q, mn, md) == p * md < q * mn

\* mutant of LowerIsCloser: the comparison of line 44 turned round
LowerIsFarther(p, q, a, b, c, d) ==
    Abs(p * b - q * a) * d > Abs(p * d - q * c) * b

\* mutant of LowerIsCloser: <= for < at line 44
LowerIsCloserOrTied(p, q, a, b, c, d) ==
    Abs(p * b - q * a) * d <= Abs(p * d - q * c) * b

\* si5351.c:44, fabs(f - a/b) < fabs(f - c/d), on f = p/q
LowerIsCloser(p, q, a, b, c, d) ==
    Abs(p * b - q * a) * d < Abs(p * d - q * c) * b

(***************************************************************************)
(* The same loop on numbers that stay below 2^31 when the denominator      *)
(* limit is 1048575.  With al = p*b - q*a and be = q*c - p*d (the          *)
(* distances of f from the two bounds, scaled), the test of line 35 is     *)
(* al < be, the step of lines 36-37 subtracts al from be and the step of   *)
(* lines 39-40 subtracts be from al; al*d + be*b = q throughout, so the    *)
(* final comparison of line 44 is al*d < be*b.  A run of k iterations that *)
(* take the same branch is applied at once.                                *)
(***************************************************************************)
RECURSIVE FareyLoop(_, _, _, _, _, _, _)
FareyLoop(al, be, a, b, c, d, D) ==
    IF b + d > D
    THEN IF al * d < be * b THEN <<a, b>> ELSE <<c, d>>
    ELSE IF al < be
         THEN LET k == IF al = 0 THEN (D - d) \div b
                       ELSE Min((be - 1) \div al, (D - d) \div b)
              IN  FareyLoop(al, be - k * al, a, b, c + k * a, d + k * b, D)
         ELSE LET k == Min(al \div be, (D - b) \div d)
              IN  FareyLoop(al - k * be, be, a + k * c, b + k * d, c, d, D)

\* farey_fraction(p/q, D): <<num, den>>
FareyFraction(p, q, D) ==
    IF FareyDegenerate(p, q, D) THEN <<0, 1>>
    ELSE FareyLoop(p, q - p, 0, 1, 1, 1, D)

\* ------------------------------------------------------------------------
\* si5351_calc_multisynth, si5351.c:53-69
\* ------------------------------------------------------------------------

\* pll[0], si5351.c:65, as the exact integer (negative when the C value wraps)
MultisynthP1(mult, num, den) == (mult * 128) + ((128 * num) \div den) - 512

\* pll[1], si5351.c:66
MultisynthP2(num, den) == (num * 128) - (den * ((128 * num) \div den))

\* the record of one call: inputs, the values logged at line 62, pll[0..2]
CalcMultisynth(f1, f2) ==
    LET pll_mult == f1 \div f2
        nd == FareyFraction(f1 % f2, f2, FAREY_MAX_DENOMINATOR)
    IN  [f1 |-> f1, f2 |-> f2, mult |-> pll_mult, num |-> nd[1], den |-> nd[2],
         p1 |-> MultisynthP1(pll_mult, nd[1], nd[2]),
         p2 |-> MultisynthP2(nd[1], nd[2]),
         p3 |-> nd[2]]

\* ------------------------------------------------------------------------
\* The driver state: one si5351_t (si5351.h:70-85) and what its callbacks saw
\* ------------------------------------------------------------------------
VARIABLES
    si5351,   \* the si5351_t: crystal_freq, crystal_load, freq, phase, pll,
              \* clk_pll, clk_dis, clk_invert, clk_drive, vco_freq, config
    op,       \* the public operation that ran last
    args,     \* its arguments, in the order of its parameters
    ret,      \* what it returned: <<0>>, <<-1>>, or <<>> for a void function
    writes,   \* the calls of the write callback it made, in order: <<reg, val>>
              \* (empty exactly when it ran no configuration pass)
    calcs,    \* the si5351_calc_multisynth calls it made, in order
    pass,     \* how the most recent configuration pass ended: "ok" (return at
              \* line 196) or "abort" (one of the return -1 of lines 101-158)
    nsets,    \* the number of si5351_set calls made so far
    batched,  \* the number of si5351_set calls that changed the struct with
              \* config clear since the last si5351_start_batch
    \* farey_fraction run statement by statement (FareySpec)
    fIn,      \* the arguments: [p, q, D], f = p/q, max_denominator = D
    fBounds,  \* the locals <<a, b, c, d>>
    fPc,      \* "idle", "entry", "loop", "compare", "done"
    fOut      \* <<*num, *den>>

devVars == <<si5351, op, args, ret, writes, calcs, pass, nsets, batched>>
fareyVars == <<fIn, fBounds, fPc, fOut>>
vars == <<si5351, op, args, ret, writes, calcs, pass, nsets, batched,
          fIn, fBounds, fPc, fOut>>

Clocks == 0 .. (SI5351_CLOCKS - 1)
Plls == 0 .. (SI5351_PLLS - 1)

\* ------------------------------------------------------------------------
\* si5351_configure, si5351.c:72-197
\* ------------------------------------------------------------------------

\* si5351.c:79-93: disable states, outputs off, clocks powered down, load
Preamble(s) ==
    << W(SI5351_REG_CLK3_0_DISABLE_STATE,
         BitOr(BitOr(s.clk_dis[3] * 64, s.clk_dis[2] * 16),
               BitOr(s.clk_dis[1] * 4, s.clk_dis[0]))),
       W(SI5351_REG_CLK7_4_DISABLE_STATE,
         BitOr(BitOr(s.clk_dis[7] * 64, s.clk_dis[6] * 16),
               BitOr(s.clk_dis[5] * 4, s.clk_dis[4]))),
       W(SI5351_REG_OE, 255) >>
    \o [i \in 1 .. SI5351_CLOCKS |-> W(SI5351_REG_CLK0_CONTROL + (i - 1), 128)]
    \o << W(SI5351_REG_CRYSTAL_INTERNAL_LOAD_CAPACITANCE,
            BitOr(72, s.crystal_load)) >>

\* mutant of FreqInRange: the two limits excluded
FreqInRangeExclusive(freq) ==
    ~((freq <= SI5351_MIN_FREQ) \/ (freq >= SI5351_MAX_FREQ))

\* si5351.c:104 and 156
FreqInRange(freq) == ~((freq < SI5351_MIN_FREQ) \/ (freq > SI5351_MAX_FREQ))

RECURSIVE PllPrescale(_)
\* si5351.c:111-114: the frequency after the doubling loop
PllPrescale(freq) ==
    IF freq < PRESCALE_FLOOR THEN PllPrescale(freq * 2) ELSE freq

\* mutant of OmdDiv: the & ~1 of line 116 left out
OmdDivOdd(freq) == (OMD_NUMERATOR \div freq) + 3

\* si5351.c:116: (uint32_t)((600000000.0/freq) + 3) & ~1
OmdDiv(freq) ==
    LET x == (OMD_NUMERATOR \div freq) + 3 IN x - (x % 2)

\* si5351.c:117
OmdInRange(omd_div) == ~((omd_div < OMD_MIN) \/ (omd_div > OMD_MAX))

\* si5351.c:123
VcoInRange(vco_freq) ==
    ~((vco_freq < SI5351_VCO_MIN) \/ (vco_freq > SI5351_VCO_MAX))

\* si5351.c:133-140: the eight PLL parameter registers of stage i
PllWrites(i, m) ==
    LET base == SI5351_REG_MSN_PLL_BASE + (i * 8) IN
    << W(base,     (m.p3 \div 256) % 256),
       W(base + 1, m.p3 % 256),
       W(base + 2, (m.p1 \div 65536) % 4),
       W(base + 3, (m.p1 \div 256) % 256),
       W(base + 4, m.p1 % 256),
       W(base + 5, BitOr(((m.p3 \div 65536) % 16) * 16, (m.p2 \div 65536) % 16)),
       W(base + 6, (m.p2 \div 256) % 256),
       W(base + 7, m.p2 % 256) >>

RECURSIVE PllLoopSkipIdle(_, _, _, _)
\* mutant of PllLoop: a stage whose master has frequency 0 is skipped
PllLoopSkipIdle(s, i, ws, cs) ==
    IF i >= SI5351_PLLS THEN [ok |-> TRUE, s |-> s, writes |-> ws, calcs |-> cs]
    ELSE
    LET fail == [ok |-> FALSE, s |-> s, writes |-> ws, calcs |-> cs] IN
    IF s.clk_pll[i] >= SI5351_CLOCKS THEN fail
    ELSE IF s.freq[s.clk_pll[i]] = 0 THEN PllLoopSkipIdle(s, i + 1, ws, cs)
    ELSE
    LET freq0 == s.freq[s.clk_pll[i]] IN
    IF ~FreqInRange(freq0) THEN fail
    ELSE
    LET freq == PllPrescale(freq0)
        omd_div == OmdDiv(freq)
    IN
    IF ~OmdInRange(omd_div) THEN fail
    ELSE
    LET vco_freq == freq * omd_div IN
    IF ~VcoInRange(vco_freq) THEN fail
    ELSE
    LET s2 == [s EXCEPT !.vco_freq[i] = vco_freq]
        m == CalcMultisynth(vco_freq, s.crystal_freq)
    IN  PllLoopSkipIdle(s2, i + 1, ws \o PllWrites(i, m), Append(cs, m))

RECURSIVE PllLoop(_, _, _, _)
(* si5351.c:96-141 from stage i on, with the writes ws and calls cs made so *)
(* far: [ok, s, writes, calcs]; s carries the vco_freq stored at line 127.  *)
PllLoop(s, i, ws, cs) ==
    IF i >= SI5351_PLLS THEN [ok |-> TRUE, s |-> s, writes |-> ws, calcs |-> cs]
    ELSE
    LET fail == [ok |-> FALSE, s |-> s, writes |-> ws, calcs |-> cs] IN
    IF s.clk_pll[i] >= SI5351_CLOCKS THEN fail
    ELSE
    LET freq0 == s.freq[s.clk_pll[i]] IN
    IF ~FreqInRange(freq0) THEN fail
    ELSE
    LET freq == PllPrescale(freq0)
        omd_div == OmdDiv(freq)
    IN
    IF ~OmdInRange(omd_div) THEN fail
    ELSE
    LET vco_freq == freq * omd_div IN
    IF ~VcoInRange(vco_freq) THEN fail
    ELSE
    LET s2 == [s EXCEPT !.vco_freq[i] = vco_freq]
        m == CalcMultisynth(vco_freq, s.crystal_freq)
    IN  PllLoop(s2, i + 1, ws \o PllWrites(i, m), Append(cs, m))

\* mutant of OutPrescale: the doubling loop of lines 163-166 left out
OutPrescaleNone(n, freq) == <<n, freq>>

RECURSIVE OutPrescale(_, _)
\* si5351.c:162-166: <<omd_div, freq>> after the doubling loop from <<n, freq>>
OutPrescale(n, freq) ==
    IF (freq < PRESCALE_FLOOR) /\ (n < RDIV_CAP)
    THEN OutPrescale(n + 1, freq * 2)
    ELSE <<n, freq>>

\* si5351.c:185-186: the control register value of output i
ClkControl(s, i) ==
    BitOr(BitOr(BitAnd(s.pll[i] * 32, 32), IF s.clk_invert[i] # 0 THEN 16 ELSE 0),
          BitOr(12, BitAnd(s.clk_drive[i], 3)))

\* si5351.c:172-186: multisynth block, phase and control of output i
ClkWrites(s, i, omd_div, m) ==
    LET base == SI5351_REG_CLK_SYNTH_BASE + (i * 8) IN
    << W(base,     (m.p3 \div 256) % 256),
       W(base + 1, m.p3 % 256),
       W(base + 2, BitOr(omd_div * 16, (m.p1 \div 65536) % 4)),
       W(base + 3, (m.p1 \div 256) % 256),
       W(base + 4, m.p1 % 256),
       W(base + 5, BitOr(BitAnd(m.p3 \div 4096, 240), (m.p2 \div 65536) % 16)),
       W(base + 6, (m.p2 \div 256) % 256),
       W(base + 7, m.p2 % 256),
       W(SI5351_REG_PHASE_BASE + i, s.phase[i] % 128),
       W(SI5351_REG_CLK0_CONTROL + i, ClkControl(s, i)) >>

RECURSIVE ClkLoop(_, _, _, _)
\* si5351.c:144-187 from output i on: [ok, writes, calcs]
ClkLoop(s, i, ws, cs) ==
    IF i >= SI5351_CLOCKS THEN [ok |-> TRUE, writes |-> ws, calcs |-> cs]
    ELSE IF s.freq[i] = 0 THEN ClkLoop(s, i + 1, ws, cs)
    ELSE IF s.pll[i] >= SI5351_PLLS
         THEN [ok |-> FALSE, writes |-> ws, calcs |-> cs]
    ELSE IF ~FreqInRange(s.freq[i])
         THEN [ok |-> FALSE, writes |-> ws, calcs |-> cs]
    ELSE
    LET vco_freq == s.vco_freq[s.pll[i]]
        pre == OutPrescale(0, s.freq[i])
        m == CalcMultisynth(vco_freq, pre[2])
    IN  ClkLoop(s, i + 1, ws \o ClkWrites(s, i, pre[1], m), Append(cs, m))

RECURSIVE OeMaskInverted(_, _)
\* mutant of OeMask: the bit set for the outputs that are on
OeMaskInverted(s, i) ==
    IF i >= SI5351_CLOCKS THEN 0
    ELSE (IF s.freq[i] # 0 THEN 2 ^ i ELSE 0) + OeMaskInverted(s, i + 1)

RECURSIVE OeMask(_, _)
\* si5351.c:190-193: oe accumulated from output i on
OeMask(s, i) ==
    IF i >= SI5351_CLOCKS THEN 0
    ELSE (IF s.freq[i] = 0 THEN 2 ^ i ELSE 0) + OeMask(s, i + 1)

\* mutant of Configure: the test of config at lines 75-77 left out
ConfigureIgnoringFlag(s) ==
    LET p == PllLoop(s, 0, Preamble(s), <<>>) IN
    IF ~p.ok
    THEN [ret |-> -1, pass |-> "abort", s |-> p.s, writes |-> p.writes, calcs |-> p.calcs]
    ELSE
    LET c == ClkLoop(p.s, 0, p.writes, p.calcs) IN
    IF ~c.ok
    THEN [ret |-> -1, pass |-> "abort", s |-> p.s, writes |-> c.writes, calcs |-> c.calcs]
    ELSE [ret |-> 0, pass |-> "ok", s |-> p.s,
          writes |-> Append(c.writes, W(SI5351_REG_OE, OeMask(p.s, 0))),
          calcs |-> c.calcs]

\* si5351_configure: [ret, pass, s, writes, calcs]
Configure(s) ==
    IF ~s.config
    THEN [ret |-> 0, pass |-> "none", s |-> s, writes |-> <<>>, calcs |-> <<>>]
    ELSE
    LET p == PllLoop(s, 0, Preamble(s), <<>>) IN
    IF ~p.ok
    THEN [ret |-> -1, pass |-> "abort", s |-> p.s, writes |-> p.writes, calcs |-> p.calcs]
    ELSE
    LET c == ClkLoop(p.s, 0, p.writes, p.calcs) IN
    IF ~c.ok
    THEN [ret |-> -1, pass |-> "abort", s |-> p.s, writes |-> c.writes, calcs |-> c.calcs]
    ELSE [ret |-> 0, pass |-> "ok", s |-> p.s,
          writes |-> Append(c.writes, W(SI5351_REG_OE, OeMask(p.s, 0))),
          calcs |-> c.calcs]

\* ------------------------------------------------------------------------
\* Inputs of the public operations
\* ------------------------------------------------------------------------
\* the number of si5351_set calls a run makes
MaxSets == 2

\* si5351_disable_t, si5351.h:40-45
SI5351_DISABLE_LOW == 0
SI5351_DISABLE_TRISTATE == 2

\* the crystal of app_main, main.c:75
CrystalFreqs == {SI5351_CRYSTAL_FREQ_27MHZ}
CrystalLoads == {SI5351_CRYSTAL_LOAD_8PF}

\* the two si5351_set calls of app_main, main.c:76-77:
\* <<output, pll, freq, phase, invert, pll_master>>
SampleCalls ==
    { <<0, SI5351_PLL_A, 2000000, 0, FALSE, TRUE>>,
      <<1, SI5351_PLL_A, 2000000, 0, TRUE, FALSE>> }

\* output arguments: the default master and another output
SetOutputs == {0, 1}
SetPlls == {SI5351_PLL_A, SI5351_PLL_B}
\* off, the two range limits and their neighbours, the sample's frequency
SetFreqs == {0, 7999, 8000, 2000000, 150000000, 150000001}

\* si5351_set calls on the limits of the frequency range
RangeCalls ==
    { <<o, pl, f, 0, FALSE, m>> :
        o \in SetOutputs, pl \in SetPlls, f \in SetFreqs, m \in BOOLEAN }

\* a call with an output one past the last
BadOutputCalls == { <<SI5351_CLOCKS, SI5351_PLL_A, 2000000, 0, FALSE, FALSE>> }

SetCalls == SampleCalls \cup RangeCalls \cup BadOutputCalls

\* clock arguments of si5351_set_disabled: all, the first, one past the last
DisClocks == {SI5351_CLOCK_ALL, 0, SI5351_CLOCKS}
DisStates == {SI5351_DISABLE_TRISTATE}

\* ------------------------------------------------------------------------
\* The public operations
\* ------------------------------------------------------------------------
FareyIdle ==
    /\ fIn = [p |-> 0, q |-> 1, D |-> 0]
    /\ fBounds = <<0, 1, 1, 1>>
    /\ fPc = "idle"
    /\ fOut = <<0, 1>>

\* mutant of Zeroed: line 225 left out, config stays as memset left it
ZeroedConfigClear(cf, cl) ==
    [crystal_freq |-> cf, crystal_load |-> cl,
     freq |-> [i \in 0 .. 7 |-> 0], phase |-> [i \in 0 .. 7 |-> 0],
     pll |-> [i \in 0 .. 7 |-> 0], clk_pll |-> [i \in 0 .. 1 |-> 0],
     clk_dis |-> [i \in 0 .. 7 |-> 0], clk_invert |-> [i \in 0 .. 7 |-> 0],
     clk_drive |-> [i \in 0 .. 7 |-> 0], vco_freq |-> [i \in 0 .. 1 |-> 0],
     config |-> FALSE]

\* the struct after memset and lines 218-225
Zeroed(cf, cl) ==
    [crystal_freq |-> cf, crystal_load |-> cl,
     freq |-> [i \in Clocks |-> 0], phase |-> [i \in Clocks |-> 0],
     pll |-> [i \in Clocks |-> 0], clk_pll |-> [i \in Plls |-> 0],
     clk_dis |-> [i \in Clocks |-> 0], clk_invert |-> [i \in Clocks |-> 0],
     clk_drive |-> [i \in Clocks |-> 0], vco_freq |-> [i \in Plls |-> 0],
     config |-> TRUE]

\* si5351_init, si5351.c:209-228: the state it leaves
si5351_init(cf, cl) ==
    \E r \in {Configure(Zeroed(cf, cl))} :
    /\ si5351 = r.s
    /\ op = "init"
    /\ args = <<cf, cl>>
    /\ ret = <<>>
    /\ writes = r.writes
    /\ calcs = r.calcs
    /\ pass = r.pass
    /\ nsets = 0
    /\ batched = 0

Init ==
    /\ \E cf \in CrystalFreqs, cl \in CrystalLoads : si5351_init(cf, cl)
    /\ FareyIdle

\* what an operation leaves when it returns without calling si5351_configure
NoPass ==
    /\ writes' = <<>>
    /\ calcs' = <<>>
    /\ UNCHANGED pass

\* what an operation leaves when its si5351_configure call returned r
Configured(r) ==
    /\ si5351' = r.s
    /\ writes' = r.writes
    /\ calcs' = r.calcs
    /\ pass' = IF r.pass = "none" THEN pass ELSE r.pass

\* si5351_set, si5351.c:241-259
si5351_set(output, pllv, freq, phase, invert, pll_master) ==
    /\ nsets < MaxSets
    /\ nsets' = nsets + 1
    /\ op' = "set"
    /\ args' = <<output, pllv, freq, phase, invert, pll_master>>
    /\ IF output >= SI5351_CLOCKS
       THEN /\ ret' = <<-1>>
            /\ NoPass
            /\ UNCHANGED <<si5351, batched>>
       ELSE LET s1 == [si5351 EXCEPT !.freq[output] = freq,
                                     !.phase[output] = phase,
                                     !.clk_invert[output] = IF invert THEN 1 ELSE 0,
                                     !.pll[output] = pllv]
                s2 == IF pll_master
                      THEN [s1 EXCEPT !.clk_pll[pllv] = output]
                      ELSE s1
            IN  \E r \in {Configure(s2)} :
                /\ Configured(r)
                /\ ret' = <<r.ret>>
                /\ batched' = IF si5351.config THEN batched ELSE batched + 1
    /\ UNCHANGED fareyVars

\* si5351_start_batch, si5351.c:262-265
si5351_start_batch ==
    /\ si5351' = [si5351 EXCEPT !.config = FALSE]
    /\ op' = "start_batch"
    /\ args' = <<>>
    /\ ret' = <<>>
    /\ NoPass
    /\ batched' = 0
    /\ UNCHANGED <<nsets, fareyVars>>

\* si5351_write_batch, si5351.c:268-272
si5351_write_batch ==
    \E r \in {Configure([si5351 EXCEPT !.config = TRUE])} :
    /\ Configured(r)
    /\ op' = "write_batch"
    /\ args' = <<>>
    /\ ret' = <<>>
    /\ UNCHANGED <<nsets, batched, fareyVars>>

\* si5351_set_disabled, si5351.c:275-291
si5351_set_disabled(clock, ds) ==
    /\ op' = "set_disabled"
    /\ args' = <<clock, ds>>
    /\ IF clock = SI5351_CLOCK_ALL \/ ((clock >= 0) /\ (clock < SI5351_CLOCKS))
       THEN LET s1 == IF clock = SI5351_CLOCK_ALL
                      THEN [si5351 EXCEPT !.clk_dis = [i \in Clocks |-> ds]]
                      ELSE [si5351 EXCEPT !.clk_dis[clock] = ds]
            IN  \E r \in {Configure(s1)} :
                /\ Configured(r)
                /\ ret' = <<0>>
       ELSE /\ ret' = <<-1>>
            /\ NoPass
            /\ UNCHANGED si5351
    /\ UNCHANGED <<nsets, batched, fareyVars>>

Set ==
    \E c \in SetCalls : si5351_set(c[1], c[2], c[3], c[4], c[5], c[6])

SetDisabled ==
    \E clock \in DisClocks, ds \in DisStates : si5351_set_disabled(clock, ds)

Next ==
    \/ Set
    \/ SetDisabled
    \/ si5351_start_batch
    \/ si5351_write_batch

Spec == Init /\ [][Next]_vars

\* ------------------------------------------------------------------------
\* farey_fraction statement by statement, si5351.c:19-51
\* ------------------------------------------------------------------------
\* the largest denominator q of an input f = p/q
MaxQ == 10
\* the largest max_denominator
MaxDen == 10

FareyInputs ==
    { [p |-> p, q |-> q, D |-> D] : p \in 0 .. MaxQ, q \in 1 .. MaxQ, D \in 1 .. MaxDen }

\* a call of farey_fraction(f, max_denominator, &num, &den) is entered
FareyInit ==
    /\ fIn \in { x \in FareyInputs : x.p <= x.q }
    /\ fBounds = <<0, 1, 1, 1>>
    /\ fPc = "entry"
    /\ fOut = <<0, 0>>
    /\ \E cf \in CrystalFreqs, cl \in CrystalLoads : si5351_init(cf, cl)

\* si5351.c:21-28
FareyEntry ==
    /\ fPc = "entry"
    /\ IF FareyDegenerate(fIn.p, fIn.q, fIn.D)
       THEN /\ fOut' = <<0, 1>>
            /\ fPc' = "done"
            /\ UNCHANGED fBounds
       ELSE /\ fBounds' = <<0, 1, 1, 1>>
            /\ fPc' = "loop"
            /\ UNCHANGED fOut
    /\ UNCHANGED <<fIn, devVars>>

\* si5351.c:30-41: one iteration of the while loop
FareyIter ==
    /\ fPc = "loop"
    /\ LET a == fBounds[1]
           b == fBounds[2]
           c == fBounds[3]
           d == fBounds[4]
           mediant_num == a + c
           mediant_den == b + d
       IN  IF mediant_den > fIn.D
           THEN /\ fPc' = "compare"
                /\ UNCHANGED fBounds
           ELSE /\ fBounds' = IF FLessThan(fIn.p, fIn.q, mediant_num, mediant_den)
                              THEN <<a, b, mediant_num, mediant_den>>
                              ELSE <<mediant_num, mediant_den, c, d>>
                /\ UNCHANGED fPc
    /\ UNCHANGED <<fIn, fOut, devVars>>

\* si5351.c:44-50
FareyCompare ==
    /\ fPc = "compare"
    /\ fOut' = IF LowerIsCloser(fIn.p, fIn.q, fBounds[1], fBounds[2], fBounds[3], fBounds[4])
               THEN <<fBounds[1], fBounds[2]>>
               ELSE <<fBounds[3], fBounds[4]>>
    /\ fPc' = "done"
    /\ UNCHANGED <<fIn, fBounds, devVars>>

FareyNext ==
    \/ FareyEntry
    \/ FareyIter
    \/ FareyCompare

FareySpec == FareyInit /\ [][FareyNext]_vars

\* the call runs on: nothing but the caller can stop it
FareyLive == FareySpec /\ WF_vars(FareyNext)

\* FareyLoop, which applies runs of iterations at once, returns what the
\* statement-by-statement run returns
FareyLoopAgrees ==
    fPc = "done" => fOut = FareyFraction(fIn.p, fIn.q, fIn.D)

\* ------------------------------------------------------------------------
\* Properties
\* ------------------------------------------------------------------------
\* the operation that ran last ran a configuration pass
RanPass == writes # <<>>

\* bit i of x
Bit(x, i) == (x \div (2 ^ i)) % 2

\* the positions of the writes to register reg
WritesTo(ws, reg) == { k \in DOMAIN ws : ws[k][1] = reg }

\* registers 26-41 are the two PLL blocks, 42-105 the eight multisynth blocks
PllBlock(st) == (SI5351_REG_MSN_PLL_BASE + 8 * st) .. (SI5351_REG_MSN_PLL_BASE + 8 * st + 7)
SynthBlocks == SI5351_REG_CLK_SYNTH_BASE .. (SI5351_REG_CLK_SYNTH_BASE + 8 * SI5351_CLOCKS - 1)

\* the value of a disable-state register for outputs lo .. lo+3
DisableByte(s, lo) ==
    s.clk_dis[lo] + 4 * s.clk_dis[lo + 1] + 16 * s.clk_dis[lo + 2] + 64 * s.clk_dis[lo + 3]

\* the fields of output i a si5351_set call stores
SameOutput(s, t, i) ==
    /\ t.freq[i] = s.freq[i]
    /\ t.phase[i] = s.phase[i]
    /\ t.pll[i] = s.pll[i]
    /\ t.clk_invert[i] = s.clk_invert[i]

\* everything the callers set, as opposed to config and the derived vco_freq
SameSettings(s, t) ==
    /\ \A i \in Clocks : SameOutput(s, t, i) /\ t.clk_dis[i] = s.clk_dis[i]
    /\ t.clk_pll = s.clk_pll
    /\ t.crystal_freq = s.crystal_freq
    /\ t.crystal_load = s.crystal_load

(* C1: with config clear, si5351_set and si5351_set_disabled make no write  *)
(* and leave config clear, and store their arguments in the struct without  *)
(* touching what earlier calls stored elsewhere; si5351_write_batch sets    *)
(* config, keeps every stored setting, and runs exactly one pass (one write *)
(* of register 24, the first of a pass) whose disable-state, control, phase *)
(* and output-enable values are those of the settings stored by then.       *)
C1_BatchDefersWrites ==
    [][ /\ (~si5351.config /\ op' = "set") =>
              /\ writes' = <<>>
              /\ ~si5351'.config
              /\ (args'[1] < SI5351_CLOCKS) =>
                    /\ si5351'.freq[args'[1]] = args'[3]
                    /\ si5351'.phase[args'[1]] = args'[4]
                    /\ si5351'.pll[args'[1]] = args'[2]
                    /\ si5351'.clk_invert[args'[1]] = (IF args'[5] THEN 1 ELSE 0)
                    /\ args'[6] => si5351'.clk_pll[args'[2]] = args'[1]
                    /\ \A st \in Plls \ {args'[2]} : si5351'.clk_pll[st] = si5351.clk_pll[st]
                    /\ \A i \in Clocks \ {args'[1]} : SameOutput(si5351, si5351', i)
                    /\ si5351'.clk_dis = si5351.clk_dis
        /\ (~si5351.config /\ op' = "set_disabled") =>
              /\ writes' = <<>>
              /\ ~si5351'.config
              /\ \A i \in Clocks :
                    /\ SameOutput(si5351, si5351', i)
                    /\ si5351'.clk_dis[i] =
                          IF args'[1] = SI5351_CLOCK_ALL \/ args'[1] = i
                          THEN args'[2] ELSE si5351.clk_dis[i]
              /\ si5351'.clk_pll = si5351.clk_pll
        /\ (op' = "write_batch") =>
              /\ si5351'.config
              /\ SameSettings(si5351, si5351')
              /\ Cardinality(WritesTo(writes', SI5351_REG_CLK3_0_DISABLE_STATE)) = 1
              /\ writes'[1] = <<SI5351_REG_CLK3_0_DISABLE_STATE, DisableByte(si5351, 0)>>
              /\ writes'[2] = <<SI5351_REG_CLK7_4_DISABLE_STATE, DisableByte(si5351, 4)>>
              /\ (pass' = "ok") =>
                    /\ \A i \in Clocks :
                          Bit(writes'[Len(writes')][2], i) = (IF si5351.freq[i] = 0 THEN 1 ELSE 0)
                    /\ \A i \in Clocks : (si5351.freq[i] # 0) =>
                          /\ \E k \in DOMAIN writes' :
                                writes'[k] = <<SI5351_REG_PHASE_BASE + i, si5351.phase[i] % 128>>
                          /\ \E k \in DOMAIN writes' :
                                /\ k > SI5351_CLOCKS + 4
                                /\ writes'[k] = <<SI5351_REG_CLK0_CONTROL + i,
                                                  12 + 32 * si5351.pll[i]
                                                     + 16 * si5351.clk_invert[i]>>
      ]_vars

\* C1 witness: a write_batch that covered two batched si5351_set calls
C1_Witness ==
    /\ op = "write_batch"
    /\ batched = 2
    /\ pass = "ok"
    /\ si5351.freq[0] = 2000000
    /\ si5351.freq[1] = 2000000
    /\ si5351.clk_invert[1] = 1
    /\ Len(writes) = 49
    /\ writes[49] = <<SI5351_REG_OE, 252>>

\* what C2 is about: a si5351_set on a valid output, made with config set
\* right after a state whose most recent pass succeeded
C2_Case == si5351.config /\ pass = "ok" /\ op' = "set" /\ args'[1] \in Clocks

(* C2 as stated: in that case 7999 and 150000001 return -1, and 8000 and    *)
(* 150000000 return 0, whether or not the output is a PLL master.           *)
C2_Original ==
    [][ C2_Case =>
          /\ (args'[3] \in {7999, 150000001}) => ret' = <<-1>>
          /\ (args'[3] \in {8000, 150000000}) => ret' = <<0>>
      ]_vars

(* C2 amended: 7999 and 150000001 return -1 and 8000 returns 0 on every     *)
(* output; 150000000 returns 0 when the output is the master of no PLL      *)
(* stage after the call and -1 when it is the master of one.                *)
C2_RangeInclusive ==
    [][ C2_Case =>
          /\ (args'[3] \in {7999, 150000001}) => ret' = <<-1>>
          /\ (args'[3] = 8000) => ret' = <<0>>
          /\ (args'[3] = 150000000) =>
                ret' = IF \E st \in Plls : si5351'.clk_pll[st] = args'[1]
                       THEN <<-1>> ELSE <<0>>
      ]_vars

\* C2 witness: 150 MHz accepted on output 1 while output 0 is the master
C2_Witness ==
    /\ op = "set"
    /\ args = <<1, SI5351_PLL_A, 150000000, 0, FALSE, FALSE>>
    /\ nsets = 2
    /\ si5351.config
    /\ si5351.freq[0] = 2000000
    /\ si5351.clk_pll[0] = 0
    /\ si5351.clk_pll[1] = 0
    /\ ret = <<0>>
    /\ pass = "ok"

(* C3 as stated: an operation (si5351_set, si5351_set_disabled,             *)
(* si5351_write_batch) whose configuration pass aborted returns -1.         *)
C3_Original ==
    (RanPass /\ pass = "abort" /\ op \in {"set", "set_disabled", "write_batch"})
        => ret = <<-1>>

\* the master's target f doubled until it is at least 500000
IsPrescaled(f, pre) ==
    \E j \in 0 .. 6 :
        /\ pre = f * (2 ^ j)
        /\ pre >= 500000
        /\ (j = 0 \/ pre \div 2 < 500000)

(* C5: a stored VCO frequency is 0 or within [600 MHz, 900 MHz]; after an   *)
(* operation whose pass succeeded, each stage's VCO frequency is within the *)
(* range and is its master's pre-scaled frequency times an even integer in  *)
(* [8, 2047].                                                               *)
C5_VcoRange ==
    /\ \A st \in Plls :
          \/ si5351.vco_freq[st] = 0
          \/ (600000000 <= si5351.vco_freq[st] /\ si5351.vco_freq[st] <= 900000000)
    /\ (RanPass /\ pass = "ok") =>
          \A st \in Plls :
              LET f == si5351.freq[si5351.clk_pll[st]]
                  v == si5351.vco_freq[st]
              IN  /\ 600000000 <= v
                  /\ v <= 900000000
                  /\ \E j \in 0 .. 6 :
                        LET pre == f * (2 ^ j) IN
                        /\ IsPrescaled(f, pre)
                        /\ v % pre = 0
                        /\ (v \div pre) % 2 = 0
                        /\ 8 <= v \div pre
                        /\ v \div pre <= 2047

\* C5 witness: the two stages planned from different masters
C5_Witness ==
    /\ RanPass
    /\ pass = "ok"
    /\ si5351.clk_pll[0] # si5351.clk_pll[1]
    /\ si5351.vco_freq[0] = 604000000
    /\ si5351.vco_freq[1] = 601088000

\* the writes of lines 80-93 on a zeroed struct with the 8 pF load
InitWrites ==
    << <<24, 0>>, <<25, 0>>, <<3, 255>>,
       <<16, 128>>, <<17, 128>>, <<18, 128>>, <<19, 128>>,
       <<20, 128>>, <<21, 128>>, <<22, 128>>, <<23, 128>>,
       <<183, 200>> >>

(* C6 as stated: the pass of si5351_init runs to completion and ends with   *)
(* the final output-enable write, which marks all eight outputs disabled.   *)
C6_Original ==
    (op = "init") =>
        /\ pass = "ok"
        /\ writes[Len(writes)] = <<SI5351_REG_OE, 255>>

(* C6 amended: si5351_init zeroes every output and PLL field, sets config   *)
(* and runs one pass over that state; the pass writes the two disable-state *)
(* registers, 0xFF to the output-enable register, 0x80 to the eight control *)
(* registers and the crystal load, then aborts at the frequency check of    *)
(* PLL A's master (output 0, frequency 0): no PLL or multisynth register is *)
(* written, there is no final output-enable write, and the one write of     *)
(* 0xFF leaves all eight outputs disabled.                                  *)
C6_InitPassAborts ==
    (op = "init") =>
        /\ si5351.config
        /\ si5351.crystal_freq = args[1]
        /\ si5351.crystal_load = args[2]
        /\ \A i \in Clocks :
              /\ si5351.freq[i] = 0
              /\ si5351.phase[i] = 0
              /\ si5351.pll[i] = 0
              /\ si5351.clk_dis[i] = 0
              /\ si5351.clk_invert[i] = 0
              /\ si5351.clk_drive[i] = 0
        /\ \A st \in Plls : si5351.clk_pll[st] = 0 /\ si5351.vco_freq[st] = 0
        /\ ret = <<>>
        /\ pass = "abort"
        /\ writes = InitWrites
        /\ calcs = <<>>

\* C6 witness: the state si5351_init leaves
C6_Witness ==
    /\ op = "init"
    /\ nsets = 0
    /\ Len(writes) = 12
    /\ WritesTo(writes, SI5351_REG_OE) = {3}
    /\ pass = "abort"

(* C7: in every pass the third write is 0xFF to the output-enable register  *)
(* (3) and every PLL or multisynth register write comes after it; register  *)
(* 3 is written again only as the last write of a pass that succeeds, with  *)
(* bit i set exactly when output i's frequency is zero; after a pass that   *)
(* aborts, the only write to register 3 is the 0xFF; after the two          *)
(* si5351_set calls of app_main the last write is <<3, 0xFC>>.              *)
C7_OutputEnableOrder ==
    RanPass =>
        LET n == Len(writes)
            oe == WritesTo(writes, SI5351_REG_OE)
        IN  /\ writes[3] = <<SI5351_REG_OE, 255>>
            /\ \A k \in DOMAIN writes :
                  (writes[k][1] \in PllBlock(0) \cup PllBlock(1) \cup SynthBlocks) => k > 3
            /\ (pass = "ok") =>
                  /\ oe = {3, n}
                  /\ \A i \in Clocks :
                        (Bit(writes[n][2], i) = 1) <=> (si5351.freq[i] = 0)
            /\ (pass = "abort") =>
                  /\ oe = {3}
                  /\ \A k \in oe : writes[k][2] = 255
            /\ (/\ op = "set"
                /\ args \in SampleCalls
                /\ \A c \in SampleCalls :
                      /\ si5351.freq[c[1]] = c[3]
                      /\ si5351.pll[c[1]] = c[2]
                /\ \A i \in Clocks \ {0, 1} : si5351.freq[i] = 0
                /\ si5351.clk_pll[0] = 0
                /\ si5351.clk_pll[1] = 0)
               => writes[n] = <<SI5351_REG_OE, 252>>

\* C7 witness: the state after app_main's two si5351_set calls
C7_Witness ==
    /\ op = "set"
    /\ args = <<1, SI5351_PLL_A, 2000000, 0, TRUE, FALSE>>
    /\ nsets = 2
    /\ si5351.freq[0] = 2000000
    /\ si5351.pll[0] = SI5351_PLL_A
    /\ si5351.clk_invert[0] = 0
    /\ si5351.clk_invert[1] = 1
    /\ si5351.clk_pll[0] = 0
    /\ si5351.clk_pll[1] = 0
    /\ ret = <<0>>
    /\ pass = "ok"
    /\ WritesTo(writes, SI5351_REG_OE) = {3, 49}
    /\ writes[49] = <<SI5351_REG_OE, 252>>

(* C9: in every si5351_calc_multisynth call of a pass the integer ratio is  *)
(* at least 4, the fraction has 0 <= num < den <= 1048575, pll[0] =         *)
(* 128*mult + floor(128*num/den) - 512 is not negative and below 2^18,      *)
(* pll[1] = (128*num) mod den is below pll[2] = den, and 128*num is below   *)
(* 2^31: no uint32_t operation wraps and the masked fields drop no bit.     *)
C9_NoWrap ==
    \A k \in DOMAIN calcs :
        LET m == calcs[k] IN
        /\ m.f2 > 0
        /\ m.mult = m.f1 \div m.f2
        /\ m.mult >= 4
        /\ 1 <= m.den
        /\ m.den <= 1048575
        /\ 0 <= m.num
        /\ m.num < m.den
        /\ 128 * m.num < 2147483647
        /\ m.p1 = 128 * m.mult + ((128 * m.num) \div m.den) - 512
        /\ m.p1 >= 0
        /\ m.p1 < 262144
        /\ m.p2 = (128 * m.num) % m.den
        /\ m.p2 < m.p3
        /\ m.p3 = m.den

\* C9 witness: a pass with a fractional PLL divider and a divider of an
\* output whose 8000 Hz target was pre-scaled to 512000
C9_Witness ==
    /\ pass = "ok"
    /\ Len(calcs) >= 4
    /\ \E k \in DOMAIN calcs :
          /\ calcs[k].f2 = si5351.crystal_freq
          /\ calcs[k].num > 0
          /\ calcs[k].p2 > 0
    /\ \E k \in DOMAIN calcs : calcs[k].f2 = 512000

(* C10: a struct on which no si5351_set ran has output 0 as the master of   *)
(* both stages; a pass that succeeds wrote the PLL block of both stages;    *)
(* and when the master of a stage has frequency 0, the pass aborts and has  *)
(* written no register of that stage's PLL block and no multisynth          *)
(* register.                                                                *)
C10_ZeroMasterAborts ==
    /\ (nsets = 0) => \A st \in Plls : si5351.clk_pll[st] = 0
    /\ (RanPass /\ pass = "ok") =>
          \A st \in Plls : \A r \in PllBlock(st) : Cardinality(WritesTo(writes, r)) = 1
    /\ RanPass =>
          \A st \in Plls :
              (si5351.freq[si5351.clk_pll[st]] = 0) =>
                  /\ pass = "abort"
                  /\ \A k \in DOMAIN writes :
                        writes[k][1] \notin (PllBlock(st) \cup SynthBlocks)

\* C10 witness: output 1 active at 2 MHz on PLL A and master of PLL A, every
\* other output off, PLL B's master still output 0: PLL A's block is
\* written and the pass aborts at PLL B
C10_Witness ==
    /\ op = "set"
    /\ args = <<1, SI5351_PLL_A, 2000000, 0, FALSE, TRUE>>
    /\ nsets = 1
    /\ si5351.config
    /\ si5351.clk_pll[0] = 1
    /\ si5351.clk_pll[1] = 0
    /\ si5351.freq[0] = 0
    /\ si5351.vco_freq[0] = 604000000
    /\ pass = "abort"
    /\ ret = <<-1>>
    /\ Len(writes) = 20
    /\ writes[13][1] = SI5351_REG_MSN_PLL_BASE

\* ------------------------------------------------------------------------
\* Properties of farey_fraction (FareySpec, FareyLive)
\* ------------------------------------------------------------------------
\* the call returned on an f strictly between 0 and 1 with D >= 2
FareyReturned == fPc = "done" /\ ~FareyDegenerate(fIn.p, fIn.q, fIn.D)

\* |f - n/d| <= |f - n2/d2| for f = p/q
NotFarther(p, q, n, d, n2, d2) ==
    Abs(p * d - q * n) * d2 <= Abs(p * d2 - q * n2) * d

\* no fraction with a denominator of at most D is closer to f than fOut
FareyBest ==
    /\ 1 <= fOut[2]
    /\ fOut[2] <= fIn.D
    /\ \A d2 \in 1 .. fIn.D : \A n2 \in 0 .. d2 :
          NotFarther(fIn.p, fIn.q, fOut[1], fOut[2], n2, d2)

(* C4: for f = p/q with 0 < f < 1 and D >= 2, farey_fraction returns, and   *)
(* returns n/d with 1 <= d <= D such that no n2/d2 with 1 <= d2 <= D is     *)
(* strictly closer to f; f = 3/10 with D = 10 returns 3/10.                 *)
C4_FareyClosest ==
    /\ <>(fPc = "done")
    /\ [](FareyReturned => FareyBest)
    /\ []((FareyReturned /\ fIn = [p |-> 3, q |-> 10, D |-> 10]) => fOut = <<3, 10>>)

\* C4 witness: 3/10 with D = 10 returned as 3/10
C4_Witness ==
    /\ FareyReturned
    /\ fIn = [p |-> 3, q |-> 10, D |-> 10]
    /\ fOut = <<3, 10>>

\* the two final bounds are equally distant from f
FareyTie ==
    Abs(fIn.p * fBounds[2] - fIn.q * fBounds[1]) * fBounds[4]
        = Abs(fIn.p * fBounds[4] - fIn.q * fBounds[3]) * fBounds[2]

(* C8 as stated: when the two final bounds are equally distant from f, the  *)
(* lower bound a/b is returned.                                             *)
C8_Original ==
    (FareyReturned /\ FareyTie) => fOut = <<fBounds[1], fBounds[2]>>

(* C8 amended: when the two final bounds are equally distant from f, the    *)
(* upper bound c/d is returned (f = 1/4 with D = 2 returns 1/2).            *)
C8_TieReturnsUpper ==
    (FareyReturned /\ FareyTie) =>
        /\ fOut = <<fBounds[3], fBounds[4]>>
        /\ (fIn = [p |-> 1, q |-> 4, D |-> 2]) => fOut = <<1, 2>>

\* C8 witness: f = 1/4 with D = 2 ends between 0/1 and 1/2 and returns 1/2
C8_Witness ==
    /\ FareyReturned
    /\ FareyTie
    /\ fIn = [p |-> 1, q |-> 4, D |-> 2]
    /\ fBounds = <<0, 1, 1, 2>>
    /\ fOut = <<1, 2>>

====
